---- MODULE Spec2Model ----
(***************************************************************************)
(* Model of src/main.py: the Flask video-analysis service.                 *)
(*                                                                         *)
(* One request handler per route (upload_file, get_progress, get_results), *)
(* one daemon thread per accepted upload running perform_full_analysis,    *)
(* the process-wide dictionary analysis_progress, the upload folder and    *)
(* the wall clock that upload_file reads.                                  *)
(*                                                                         *)
(* A worker step holds at most one read of the uploaded file and one write *)
(* to the dictionary, with the local computation around them.  A file read *)
(* commutes with every step of another thread and with every poll, and a   *)
(* dictionary write commutes with every upload, so every interleaving of   *)
(* the single accesses is equivalent to one of these steps.                *)
(*                                                                         *)
(* Percentages are kept as exact fractions <<numerator, denominator>> in   *)
(* lowest terms.  IEEE division and multiplication are monotone and        *)
(* x / x * 100 is exactly 100.0, so order and the comparisons against 0    *)
(* and 100 are the same on the fractions as on the floats of the code.     *)
(***************************************************************************)
EXTENDS Integers, Sequences, FiniteSets, TLC

\* ---- bounds of the exploration ----
MaxUploads == 2
MaxTime == 1
MaxWorkers == 1

\* ---- constants of the program ----
ChunkSize == 8192
FrameCap == 1000
Stride == 10
DarkBelow == 30
BrightAbove == 200
ExampleCap == 20

ALLOWED_EXTENSIONS == {"mp4", "avi", "mov", "mkv", "wmv", "flv", "webm"}

\* Python's None, as a value of the same kind as the result dictionaries
None == [none |-> TRUE]

Min(a, b) == IF a <= b THEN a ELSE b
Max(a, b) == IF a >= b THEN a ELSE b

RECURSIVE Gcd(_, _)
Gcd(a, b) == IF b = 0 THEN a ELSE Gcd(b, a % b)

\* (n / d) * 100 with d > 0, as a fraction in lowest terms
Pct(n, d) == LET g == Gcd(n * 100, d) IN <<(n * 100) \div g, d \div g>>

\* the int 0 the record is created with, and 100
Zero == <<0, 1>>
Hundred == <<100, 1>>

PLeq(p, q) == p[1] * q[2] <= q[1] * p[2]

\* ---- the files a client can upload ----
\* size in bytes; frame_count and fps as cv2 reports them; readable: frames
\* 0..readable-1 decode, a seek beyond fails; meta: what MediaInfo finds;
\* light: the brightness pattern of the frames.
EmptyFile ==
    [tag |-> "empty", size |-> 0, frame_count |-> 0, fps |-> 0,
     readable |-> 0, meta |-> "raises", light |-> "dark"]
ShortClip ==
    [tag |-> "short", size |-> ChunkSize \div 2, frame_count |-> 5,
     fps |-> 30, readable |-> 5, meta |-> "tracks", light |-> "mixed"]
CutClip ==
    [tag |-> "cut", size |-> 2 * ChunkSize + ChunkSize \div 2,
     frame_count |-> 45, fps |-> 25,
     readable |-> 25, meta |-> "notracks", light |-> "mixed"]
LongClip ==
    [tag |-> "long", size |-> ChunkSize, frame_count |-> FrameCap + 5,
     fps |-> 30, readable |-> FrameCap + 5, meta |-> "tracks", light |-> "dark"]
FlickerClip ==
    [tag |-> "flicker", size |-> ChunkSize, frame_count |-> FrameCap - 300,
     fps |-> 24, readable |-> FrameCap - 300, meta |-> "tracks",
     light |-> "flicker"]

\* the files uploaded while other analyses run, and those analysed alone
ShortFiles == {EmptyFile, ShortClip}
SoloFiles == {CutClip, LongClip, FlickerClip}

\* frame.mean() of frame n of file c, in thousandths of a grey level
Brightness(c, n) ==
    CASE c.light = "dark" -> 12345
      [] c.light = "flicker" ->
            (CASE (n \div Stride) % 3 = 0 -> DarkBelow * 1000 - 1
               [] (n \div Stride) % 3 = 1 -> 255000
               [] OTHER -> 128000)
      [] OTHER ->
            (CASE (n \div Stride) % 3 = 0 -> DarkBelow * 1000
               [] (n \div Stride) % 3 = 1 -> BrightAbove * 1000 + 1
               [] OTHER -> BrightAbove * 1000)

\* round(brightness, 2): thousandths to hundredths, half to even
Round2(b) ==
    LET q == b \div 10
        r == b % 10
    IN  IF r > 5 \/ (r = 5 /\ q % 2 = 1) THEN q + 1 ELSE q

\* ---- file names ----
\* a file name is a sequence of characters; the model's characters are these
\* tokens, each standing for a run of letters, a dot or a path separator
Lower(t) ==
    CASE t = "MP4" -> "mp4"
      [] OTHER -> t

RECURSIVE LastDot(_, _)
LastDot(name, i) ==
    IF i = 0 THEN 0 ELSE IF name[i] = "." THEN i ELSE LastDot(name, i - 1)

\* filename.rsplit('.', 1)[1].lower(), joined into one token sequence
Extension(name) ==
    LET d == LastDot(name, Len(name))
    IN  [j \in 1..(Len(name) - d) |-> Lower(name[d + j])]

allowed_file_any_extension(name) ==
    \E i \in 1..Len(name) : name[i] = "."

\* '.' in filename and filename.rsplit('.', 1)[1].lower() in ALLOWED_EXTENSIONS
allowed_file(name) ==
    /\ \E i \in 1..Len(name) : name[i] = "."
    /\ Len(Extension(name)) = 1
    /\ Extension(name)[1] \in ALLOWED_EXTENSIONS

\* werkzeug's secure_filename: path separators are dropped
secure_filename(name) == SelectSeq(name, LAMBDA t : t # "/")

FileNames ==
    { <<>>, <<"a">>, <<"a", ".", "txt">>, <<"/", "a", ".", "MP4">> }

\* ---- the progress record ----
RUNNING == "running"
COMPLETE == "complete"
StatusLabels ==
    {RUNNING, "Extracting metadata...", "Calculating file hash...",
     "Analyzing video frames..."}
ResultKeys == <<"metadata", "hash", "frames", "preview_frame">>

IsError(status) == status \notin StatusLabels \cup {COMPLETE}
IsRunning(status) == status \in StatusLabels
IsTerminal(status) == status = COMPLETE \/ IsError(status)

FreshRecord ==
    [status |-> RUNNING, metadata_done |-> FALSE, hash_progress |-> Zero,
     frame_progress |-> Zero, results |-> [k \in {} |-> None]]

Put(results, k, v) ==
    [x \in DOMAIN results \cup {k} |-> IF x = k THEN v ELSE results[x]]

IsErrorShaped(v) == "error" \in DOMAIN v

\* ---- state ----
VARIABLES
    now,                \* int(time.time())
    files,              \* the upload folder: path -> content
    analysis_progress,  \* the global dictionary: file_id -> record
    threads,            \* the analysis threads, in the order they were started
    response            \* the response of the last request served

vars == <<now, files, analysis_progress, threads, response>>

Ids == 0..MaxTime

NoResponse == [route |-> "none", id |-> -1, code |-> 0, body |-> None]

\* the frame of perform_full_analysis(video_path, file_id) at its first line;
\* sampled lists the frames cap.read() has returned, each with its mean
NewThread(path, id) ==
    [path |-> path, file_id |-> id, pc |-> "init",
     metadata |-> None, hash_info |-> None, frame_analysis |-> None,
     first_frame |-> None,
     file_size |-> 0, processed |-> 0, hash_func |-> <<>>,
     frame_count |-> 0, fps |-> 0, analysis_limit |-> 0, frame_number |-> 0,
     dark_frames |-> <<>>, bright_frames |-> <<>>, normal_frames |-> 0,
     sampled |-> <<>>]

Init ==
    /\ now = 0
    /\ files = [p \in {} |-> EmptyFile]
    /\ analysis_progress = [i \in {} |-> FreshRecord]
    /\ threads = <<>>
    /\ response = NoResponse

Tick ==
    /\ now < MaxTime
    /\ now' = now + 1
    /\ UNCHANGED <<files, analysis_progress, threads, response>>

\* ---- the request handlers ----

\* os.path.join(UPLOAD_FOLDER, f"{timestamp}_{secure_filename(name)}")
FilePath(timestamp, name) == <<timestamp, secure_filename(name)>>

\* file.save(filepath): the file at that path has the uploaded content
Save(path, content) ==
    [p \in DOMAIN files \cup {path} |-> IF p = path THEN content ELSE files[p]]

UploadError(code, message) ==
    [route |-> "upload", id |-> -1, code |-> code, body |-> [error |-> message]]

\* the uploads explored: up to limit of ShortFiles analysed concurrently, or
\* one of SoloFiles alone
MayStart(content, limit) ==
    /\ Len(threads) < limit
    /\ \A i \in 1..Len(threads) : files[threads[i].path] \in ShortFiles
    /\ content \in SoloFiles => threads = <<>>

\* POST /upload
upload_file(hasFile, name, content, saved) ==
    IF ~hasFile THEN
        /\ response' = UploadError(400, "No file uploaded")
        /\ UNCHANGED <<now, files, analysis_progress, threads>>
    ELSE IF name = <<>> THEN
        /\ response' = UploadError(400, "No file selected")
        /\ UNCHANGED <<now, files, analysis_progress, threads>>
    ELSE IF ~allowed_file(name) THEN
        /\ response' = UploadError(400, "Invalid file type")
        /\ UNCHANGED <<now, files, analysis_progress, threads>>
    ELSE IF ~saved THEN
        /\ response' = UploadError(500, "Failed to save file")
        /\ UNCHANGED <<now, files, analysis_progress, threads>>
    ELSE
        LET timestamp == now
            filepath == FilePath(timestamp, name)
            file_id == timestamp
        IN  /\ files' = Save(filepath, content)
            /\ threads' = Append(threads, NewThread(filepath, file_id))
            /\ response' =
                    [route |-> "upload", id |-> file_id, code |-> 200,
                     body |-> [success |-> TRUE, file_id |-> file_id,
                               filename |-> name]]
            /\ UNCHANGED <<now, analysis_progress>>

NotFound == [error |-> "File not found"]
NotReady == [status |-> "not_ready"]

get_progress_setdefault(file_id) ==
    /\ response' =
            [route |-> "progress", id |-> file_id, code |-> 200,
             body |-> IF file_id \in DOMAIN analysis_progress
                      THEN analysis_progress[file_id] ELSE FreshRecord]
    /\ analysis_progress' =
            [x \in DOMAIN analysis_progress \cup {file_id} |->
                IF x \in DOMAIN analysis_progress
                THEN analysis_progress[x] ELSE FreshRecord]
    /\ UNCHANGED <<now, files, threads>>

\* GET /progress/<file_id>
get_progress(file_id) ==
    /\ response' =
            IF file_id \notin DOMAIN analysis_progress
            THEN [route |-> "progress", id |-> file_id, code |-> 404,
                  body |-> NotFound]
            ELSE [route |-> "progress", id |-> file_id, code |-> 200,
                  body |-> analysis_progress[file_id]]
    /\ UNCHANGED <<now, files, analysis_progress, threads>>

\* GET /results/<file_id>
get_results(file_id) ==
    /\ response' =
            IF file_id \notin DOMAIN analysis_progress
            THEN [route |-> "results", id |-> file_id, code |-> 404,
                  body |-> NotFound]
            ELSE IF analysis_progress[file_id].status = COMPLETE
            THEN [route |-> "results", id |-> file_id, code |-> 200,
                  body |-> analysis_progress[file_id].results]
            ELSE [route |-> "results", id |-> file_id, code |-> 200,
                  body |-> NotReady]
    /\ UNCHANGED <<now, files, analysis_progress, threads>>

\* ---- the analyzers ----

extract_metadata_unchecked(c) ==
    CASE c.meta = "tracks" -> [video |-> c.tag, audio |-> c.tag]
      [] OTHER -> [empty |-> TRUE]

\* extract_metadata(video_path) on a file with content c
extract_metadata(c) ==
    CASE c.meta = "tracks" -> [video |-> c.tag, audio |-> c.tag]
      [] c.meta = "notracks" -> [error |-> "No metadata available"]
      [] OTHER -> [error |-> "Error extracting metadata"]

\* hash_func.update(chunk): the digest stands for the bytes fed so far, kept
\* as runs <<content tag, length>>
HashUpdate(h, tag, n) ==
    IF h # <<>> /\ h[Len(h)][1] = tag
    THEN [h EXCEPT ![Len(h)] = <<tag, @[2] + n>>]
    ELSE Append(h, <<tag, n>>)

\* hashlib.sha256().hexdigest() of no input
EmptyDigest == <<>>

\* line 85: f'Error calculating hash: {str(e)}'
HashError(e) == [error |-> "Error calculating hash", e |-> e]
HashResult(file_size, digest) ==
    [algorithm |-> "SHA-256", file_size |-> file_size, hash |-> digest]

\* f.read(8192) at offset pos of a file with content c
ChunkLen(c, pos) == Min(ChunkSize, Max(0, c.size - pos))

FramesError == [error |-> "Error analyzing frames"]

AnalysisLimitUncapped(frame_count) == frame_count

\* line 98
AnalysisLimit(frame_count) == Min(frame_count, FrameCap)

Take(seq, n) == SubSeq(seq, 1, Min(n, Len(seq)))

FramesResultListedCounts(t) ==
    IF t.fps = 0 THEN FramesError
    ELSE [total_frames |-> t.frame_count,
          frame_rate |-> t.fps,
          duration |-> (t.frame_count * 100) \div t.fps,
          dark_frames |-> Take(t.dark_frames, ExampleCap),
          bright_frames |-> Take(t.bright_frames, ExampleCap),
          normal_frames |-> t.normal_frames,
          summary |-> [dark_count |-> Len(Take(t.dark_frames, ExampleCap)),
                       bright_count |-> Len(Take(t.bright_frames, ExampleCap)),
                       normal_count |-> t.normal_frames]]

\* lines 120-139 of analyze_video_frames: the result built after the loop
FramesResult(t) ==
    IF t.fps = 0 THEN FramesError
    ELSE [total_frames |-> t.frame_count,
          frame_rate |-> t.fps,
          duration |-> (t.frame_count * 100) \div t.fps,
          dark_frames |-> Take(t.dark_frames, ExampleCap),
          bright_frames |-> Take(t.bright_frames, ExampleCap),
          normal_frames |-> t.normal_frames,
          summary |-> [dark_count |-> Len(t.dark_frames),
                       bright_count |-> Len(t.bright_frames),
                       normal_count |-> t.normal_frames]]

\* get_video_frame(video_path, 0) on a file with content c
get_video_frame(c) ==
    IF 0 < c.readable THEN [jpeg |-> c.tag] ELSE None

\* ---- perform_full_analysis ----

At(i, pc) == i \in 1..Len(threads) /\ threads[i].pc = pc

\* line 162
CreateRecord(i) ==
    /\ At(i, "init")
    /\ analysis_progress' =
            [x \in DOMAIN analysis_progress \cup {threads[i].file_id} |->
                IF x = threads[i].file_id THEN FreshRecord
                ELSE analysis_progress[x]]
    /\ threads' = [threads EXCEPT ![i].pc = "metadata"]
    /\ UNCHANGED <<now, files, response>>

\* lines 172-173
ExtractMetadata(i) ==
    /\ At(i, "metadata")
    /\ analysis_progress' =
            [analysis_progress EXCEPT
                ![threads[i].file_id].status = "Extracting metadata..."]
    /\ threads' = [threads EXCEPT ![i] =
            [@ EXCEPT !.pc = "store_metadata",
                      !.metadata = extract_metadata(files[threads[i].path])]]
    /\ UNCHANGED <<now, files, response>>

\* line 174
StoreMetadata(i) ==
    /\ At(i, "store_metadata")
    /\ analysis_progress' =
            [analysis_progress EXCEPT ![threads[i].file_id].results =
                Put(@, "metadata", threads[i].metadata)]
    /\ threads' = [threads EXCEPT ![i].pc = "metadata_done"]
    /\ UNCHANGED <<now, files, response>>

\* line 175
MetadataDone(i) ==
    /\ At(i, "metadata_done")
    /\ analysis_progress' =
            [analysis_progress EXCEPT ![threads[i].file_id].metadata_done = TRUE]
    /\ threads' = [threads EXCEPT ![i].pc = "hash"]
    /\ UNCHANGED <<now, files, response>>

HashOpenRaises(i, readable) ==
    /\ At(i, "hash")
    /\ analysis_progress' =
            [analysis_progress EXCEPT
                ![threads[i].file_id].status =
                    IF readable THEN "Calculating file hash..."
                    ELSE "Error: OSError"]
    /\ threads' = [threads EXCEPT ![i] =
            IF readable
            THEN [@ EXCEPT !.pc = "hash_read",
                           !.file_size = files[threads[i].path].size,
                           !.processed = 0,
                           !.hash_func = <<>>]
            ELSE [@ EXCEPT !.pc = "done"]]
    /\ UNCHANGED <<now, files, response>>

\* line 178, then lines 62-66 of calculate_file_hash: getsize and open, either
\* of which may raise OSError, which line 84 turns into the error-shaped result
HashOpen(i, readable) ==
    /\ At(i, "hash")
    /\ analysis_progress' =
            [analysis_progress EXCEPT
                ![threads[i].file_id].status = "Calculating file hash..."]
    /\ threads' = [threads EXCEPT ![i] =
            IF readable
            THEN [@ EXCEPT !.pc = "hash_read",
                           !.file_size = files[threads[i].path].size,
                           !.processed = 0,
                           !.hash_func = <<>>]
            ELSE [@ EXCEPT !.pc = "store_hash", !.hash_info = HashError("OSError")]]
    /\ UNCHANGED <<now, files, response>>

\* the frame's locals dropped when calculate_file_hash returns
HashReturn(t, result) ==
    [t EXCEPT !.pc = "frames", !.hash_info = result, !.file_size = 0,
              !.processed = 0, !.hash_func = <<>>]

\* one turn of the loop of lines 67-71; when the read returns no bytes, lines
\* 73-82 and line 180; when line 70 divides by zero, lines 84-85 and line 180
HashRead(i) ==
    /\ At(i, "hash_read")
    /\ LET t == threads[i]
           c == files[t.path]
           n == ChunkLen(c, t.processed)
           processed == t.processed + n
       IN  IF n = 0 THEN
                /\ threads' = [threads EXCEPT ![i] =
                        HashReturn(t, HashResult(t.file_size, t.hash_func))]
                /\ analysis_progress' =
                        [analysis_progress EXCEPT ![t.file_id].results =
                            Put(@, "hash", HashResult(t.file_size, t.hash_func))]
           ELSE IF t.file_size = 0 THEN
                /\ threads' = [threads EXCEPT ![i] =
                        HashReturn(t, HashError("division by zero"))]
                /\ analysis_progress' =
                        [analysis_progress EXCEPT ![t.file_id].results =
                            Put(@, "hash", HashError("division by zero"))]
           ELSE
                /\ threads' = [threads EXCEPT ![i] =
                        [@ EXCEPT !.hash_func = HashUpdate(@, c.tag, n),
                                  !.processed = processed]]
                /\ analysis_progress' =
                        [analysis_progress EXCEPT ![t.file_id].hash_progress =
                            Pct(processed, t.file_size)]
    /\ UNCHANGED <<now, files, response>>

\* line 180, after lines 84-85
StoreHash(i) ==
    /\ At(i, "store_hash")
    /\ analysis_progress' =
            [analysis_progress EXCEPT ![threads[i].file_id].results =
                Put(@, "hash", threads[i].hash_info)]
    /\ threads' = [threads EXCEPT ![i].pc = "frames"]
    /\ UNCHANGED <<now, files, response>>

\* line 183, then lines 89-98 of analyze_video_frames
FramesOpen(i) ==
    /\ At(i, "frames")
    /\ analysis_progress' =
            [analysis_progress EXCEPT
                ![threads[i].file_id].status = "Analyzing video frames..."]
    /\ LET c == files[threads[i].path]
       IN  threads' = [threads EXCEPT ![i] =
            [@ EXCEPT !.pc = "frames_read",
                      !.frame_count = c.frame_count,
                      !.fps = c.fps,
                      !.analysis_limit = AnalysisLimit(c.frame_count),
                      !.frame_number = 0,
                      !.dark_frames = <<>>,
                      !.bright_frames = <<>>,
                      !.normal_frames = 0,
                      !.sampled = <<>>]]
    /\ UNCHANGED <<now, files, response>>

FramesReturnAborts(t) ==
    IF IsErrorShaped(FramesResult(t))
    THEN [t EXCEPT !.pc = "done", !.frame_analysis = FramesResult(t)]
    ELSE [t EXCEPT !.pc = "preview", !.frame_analysis = FramesResult(t),
                   !.frame_count = 0, !.fps = 0, !.analysis_limit = 0,
                   !.frame_number = 0, !.dark_frames = <<>>,
                   !.bright_frames = <<>>, !.normal_frames = 0]

\* the frame's locals dropped when analyze_video_frames returns
FramesReturn(t) ==
    [t EXCEPT !.pc = "preview", !.frame_analysis = FramesResult(t),
              !.frame_count = 0, !.fps = 0, !.analysis_limit = 0,
              !.frame_number = 0, !.dark_frames = <<>>,
              !.bright_frames = <<>>, !.normal_frames = 0]

InLoopInclusive(t) == t.frame_number <= t.analysis_limit

\* while frame_number < analysis_limit
InLoop(t) == t.frame_number < t.analysis_limit

ClassifyInclusive(brightness) ==
    IF brightness <= DarkBelow * 1000 THEN "dark"
    ELSE IF brightness >= BrightAbove * 1000 THEN "bright"
    ELSE "normal"

\* the if / elif / else of lines 109-114
Classify(brightness) ==
    IF brightness < DarkBelow * 1000 THEN "dark"
    ELSE IF brightness > BrightAbove * 1000 THEN "bright"
    ELSE "normal"

\* one turn of the loop of lines 100-118; when the loop ends, lines 120-139
\* and line 185
FramesRead(i) ==
    /\ At(i, "frames_read")
    /\ LET t == threads[i]
           c == files[t.path]
           ret == t.frame_number < c.readable
           brightness == Brightness(c, t.frame_number)
           entry == [frame |-> t.frame_number, brightness |-> Round2(brightness)]
           frame_number == t.frame_number + Stride
       IN  IF ~InLoop(t) \/ ~ret THEN
                /\ threads' = [threads EXCEPT ![i] = FramesReturn(t)]
                /\ analysis_progress' =
                        [analysis_progress EXCEPT ![t.file_id].results =
                            Put(@, "frames", FramesResult(t))]
           ELSE
                /\ threads' = [threads EXCEPT ![i] =
                        [@ EXCEPT
                            !.dark_frames =
                                IF Classify(brightness) = "dark"
                                THEN Append(@, entry) ELSE @,
                            !.bright_frames =
                                IF Classify(brightness) = "bright"
                                THEN Append(@, entry) ELSE @,
                            !.normal_frames =
                                IF Classify(brightness) = "normal"
                                THEN @ + 1 ELSE @,
                            !.sampled = Append(@, [frame |-> t.frame_number,
                                                  mean |-> brightness]),
                            !.frame_number = frame_number]]
                /\ analysis_progress' =
                        [analysis_progress EXCEPT ![t.file_id].frame_progress =
                            Pct(frame_number, t.analysis_limit)]
    /\ UNCHANGED <<now, files, response>>

\* lines 188-189
Preview(i) ==
    /\ At(i, "preview")
    /\ LET first_frame == get_video_frame(files[threads[i].path])
       IN  /\ threads' = [threads EXCEPT ![i] =
                    [@ EXCEPT !.pc = "complete", !.first_frame = first_frame]]
           /\ analysis_progress' =
                    [analysis_progress EXCEPT ![threads[i].file_id].results =
                        Put(@, "preview_frame", first_frame)]
    /\ UNCHANGED <<now, files, response>>

\* line 191, and the return: the thread ends and its locals are gone
Complete(i) ==
    /\ At(i, "complete")
    /\ analysis_progress' =
            [analysis_progress EXCEPT ![threads[i].file_id].status = COMPLETE]
    /\ threads' = [threads EXCEPT ![i] =
            [NewThread(threads[i].path, threads[i].file_id) EXCEPT
                !.pc = "done"]]
    /\ UNCHANGED <<now, files, response>>

perform_full_analysis(i) ==
    \/ CreateRecord(i)
    \/ ExtractMetadata(i)
    \/ StoreMetadata(i)
    \/ MetadataDone(i)
    \/ \E readable \in BOOLEAN : HashOpen(i, readable)
    \/ HashRead(i)
    \/ StoreHash(i)
    \/ FramesOpen(i)
    \/ FramesRead(i)
    \/ Preview(i)
    \/ Complete(i)

\* the requests a client sends to POST /upload
Uploads ==
    {[hasFile |-> FALSE, name |-> <<>>, content |-> EmptyFile, saved |-> TRUE]}
    \cup {[hasFile |-> TRUE, name |-> n, content |-> EmptyFile, saved |-> TRUE] :
            n \in {m \in FileNames : ~allowed_file(m)}}
    \cup {[hasFile |-> TRUE, name |-> n, content |-> c, saved |-> TRUE] :
            n \in {m \in FileNames : allowed_file(m)},
            c \in ShortFiles \cup SoloFiles}
    \cup {[hasFile |-> TRUE, name |-> <<"/", "a", ".", "MP4">>,
           content |-> ShortClip,
           saved |-> FALSE]}

Accepted(u) == u.hasFile /\ allowed_file(u.name) /\ u.saved

Upload ==
    \E u \in Uploads :
        /\ Accepted(u) => MayStart(u.content, MaxUploads)
        /\ upload_file(u.hasFile, u.name, u.content, u.saved)

Work == \E i \in 1..MaxUploads : perform_full_analysis(i)

Poll == \E file_id \in Ids : get_progress(file_id) \/ get_results(file_id)

Next == Tick \/ Upload \/ Work \/ Poll

Spec == Init /\ [][Next]_vars

\* the accepted uploads alone: a rejected upload and a poll change nothing but
\* the response
Accept ==
    \E u \in Uploads :
        /\ Accepted(u)
        /\ MayStart(u.content, MaxWorkers)
        /\ upload_file(u.hasFile, u.name, u.content, u.saved)

NextWork == Tick \/ Accept \/ Work

\* the workers of up to MaxWorkers accepted uploads, each started thread
\* scheduled fairly
FairSpec ==
    /\ Init
    /\ [][NextWork]_vars
    /\ \A i \in 1..MaxWorkers : WF_vars(perform_full_analysis(i))

\* the requests of a client that uploads up to MaxWorkers short files, each
\* after the analysis of the one before has ended, and polls meanwhile; its
\* rejected uploads are included
Request ==
    \E u \in Uploads :
        /\ u.content \in ShortFiles
        /\ Accepted(u) =>
                /\ MayStart(u.content, MaxWorkers)
                /\ \A i \in 1..Len(threads) : threads[i].pc = "done"
        /\ upload_file(u.hasFile, u.name, u.content, u.saved)

NextRequest == Tick \/ Request \/ Work \/ Poll

RequestSpec == Init /\ [][NextRequest]_vars

\* ---- the claims ----

Started == 1..Len(threads)
Record(i) == analysis_progress[threads[i].file_id]
AllKeys == {ResultKeys[k] : k \in 1..Len(ResultKeys)}

\* C1: once a record's status is 'complete' or an error status, no field of
\* the record changes again.
C1_TerminalRecordFrozen ==
    [][\A id \in DOMAIN analysis_progress :
        IsTerminal(analysis_progress[id].status)
            => analysis_progress'[id] = analysis_progress[id]]_vars

\* C2: a GET /progress/{id} served after the upload that returned id finds a
\* record, and while the worker has taken no step the record is running with
\* both percentages 0.
C2_ProgressAfterUpload ==
    \A i \in Started :
        (response.route = "progress" /\ response.id = threads[i].file_id)
            => /\ response.body # NotFound
               /\ threads[i].pc = "init"
                    => /\ IsRunning(response.body.status)
                       /\ response.body.hash_progress = Zero
                       /\ response.body.frame_progress = Zero

\* C3: two successive GET /progress/{id} responses that both show a running
\* status show non-decreasing hash_progress and frame_progress.
C3_PollsNonDecreasing ==
    [][(/\ response.route = "progress" /\ response'.route = "progress"
        /\ response.id = response'.id
        /\ response.code = 200 /\ response'.code = 200
        /\ IsRunning(response.body.status)
        /\ IsRunning(response'.body.status))
        => /\ PLeq(response.body.hash_progress, response'.body.hash_progress)
           /\ PLeq(response.body.frame_progress,
                   response'.body.frame_progress)]_vars

\* C4: every results map GET /results/{id} returns holds all four keys;
\* anything else it returns for a known id is not_ready.
C4_ResultsNeverPartial ==
    (response.route = "results" /\ response.code = 200
        /\ response.body # NotReady)
        => DOMAIN response.body = AllKeys

\* C5: hash_progress and frame_progress of every record are within [0, 100].
C5_ProgressInRange ==
    \A id \in DOMAIN analysis_progress :
        /\ PLeq(Zero, analysis_progress[id].hash_progress)
        /\ PLeq(analysis_progress[id].hash_progress, Hundred)
        /\ PLeq(Zero, analysis_progress[id].frame_progress)
        /\ PLeq(analysis_progress[id].frame_progress, Hundred)

\* C6: a stage's percentage is 0 before the stage starts and 100 once the
\* stage has finished and its result (not an error) is in results.
C6_ProgressZeroThenHundred ==
    \A id \in DOMAIN analysis_progress :
        LET r == analysis_progress[id]
        IN  /\ "metadata" \notin DOMAIN r.results => r.hash_progress = Zero
            /\ "hash" \notin DOMAIN r.results => r.frame_progress = Zero
            /\ ("hash" \in DOMAIN r.results
                    /\ ~IsErrorShaped(r.results["hash"]))
                => r.hash_progress = Hundred
            /\ ("frames" \in DOMAIN r.results
                    /\ ~IsErrorShaped(r.results["frames"]))
                => r.frame_progress = Hundred

\* C7: the hash stage of a zero-byte file that can be opened ends with the
\* digest of the empty input, not an error, and with hash_progress = 100.
C7_EmptyFileHash ==
    \A i \in Started :
        (/\ Len(threads) = 1
         /\ files[threads[i].path].size = 0
         /\ threads[i].pc \in {"frames", "frames_read", "preview", "complete"}
         /\ threads[i].hash_info # HashError("OSError"))
            => /\ threads[i].hash_info = HashResult(0, EmptyDigest)
               /\ Record(i).hash_progress = Hundred

\* thread i shares its file_id with no other upload
Alone(i) == \A j \in Started : j # i => threads[j].file_id # threads[i].file_id

NoErrorStatus ==
    \A id \in DOMAIN analysis_progress : ~IsError(analysis_progress[id].status)

Failed(t) == IsErrorShaped(t.hash_info) \/ IsErrorShaped(t.frame_analysis)

C8_StepAfterFailure(i) ==
    LET t == threads[i]
        t2 == threads'[i]
        r2 == analysis_progress'[t.file_id]
    IN  /\ (t.pc \in {"hash_read", "store_hash"} /\ t2.pc = "frames"
                /\ IsErrorShaped(t2.hash_info))
            => r2.results["hash"] = t2.hash_info
        /\ (t.pc = "frames" /\ IsErrorShaped(t.hash_info))
            => t2.pc = "frames_read"
        /\ (t.pc = "frames_read" /\ IsErrorShaped(t2.frame_analysis))
            => (t2.pc = "preview" /\ r2.results["frames"] = t2.frame_analysis)
        /\ (t.pc = "preview" /\ Failed(t))
            => (t2.pc = "complete" /\ "preview_frame" \in DOMAIN r2.results)
        /\ (t.pc = "complete" /\ Failed(t))
            => (t2.pc = "done" /\ r2.status = COMPLETE)

C9_StepAfterSoftFailure(i) ==
    LET t == threads[i]
        t2 == threads'[i]
        r2 == analysis_progress'[t.file_id]
    IN  /\ (t.pc = "store_metadata" /\ IsErrorShaped(t.metadata))
            => (t2.pc = "metadata_done" /\ r2.results["metadata"] = t.metadata)
        /\ (t.pc = "metadata_done" /\ IsErrorShaped(t.metadata))
            => (t2.pc = "hash" /\ r2.metadata_done)
        /\ (t.pc = "hash" /\ IsErrorShaped(t.metadata))
            => t2.pc \in {"hash_read", "store_hash"}
        /\ (t.pc \in {"hash_read", "store_hash"} /\ IsErrorShaped(t.metadata))
            => t2.pc \in {"hash_read", "frames"}
        /\ (t.pc = "frames" /\ IsErrorShaped(t.metadata))
            => t2.pc = "frames_read"
        /\ (t.pc = "frames_read" /\ IsErrorShaped(t.metadata))
            => t2.pc \in {"frames_read", "preview"}
        /\ (t.pc = "preview" /\ t2.first_frame = None)
            => (t2.pc = "complete" /\ r2.results["preview_frame"] = None)
        /\ (t.pc = "complete"
                /\ (IsErrorShaped(t.metadata) \/ t.first_frame = None))
            => (t2.pc = "done" /\ r2.status = COMPLETE)

\* C9: a metadata failure or an unreadable preview frame never gives an error
\* status: the error-shaped metadata is stored, metadata_done becomes true,
\* the hash, frame and preview stages still run, an unreadable preview is
\* stored as None and the worker ends by writing 'complete'.
C9_SoftFailuresComplete ==
    /\ [](/\ NoErrorStatus
          /\ \A i \in Started :
                (Alone(i) /\ threads[i].pc = "done")
                    => /\ Record(i).status = COMPLETE
                       /\ Record(i).metadata_done
                       /\ files[threads[i].path].meta # "tracks"
                            => IsErrorShaped(Record(i).results["metadata"])
                       /\ files[threads[i].path].readable = 0
                            => Record(i).results["preview_frame"] = None
                       /\ {"hash", "frames"} \subseteq DOMAIN Record(i).results)
    /\ [][\A i \in Started :
            threads'[i] # threads[i] => C9_StepAfterSoftFailure(i)]_vars

C9_Witness ==
    \E i \in Started :
        /\ Alone(i) /\ threads[i].pc = "done"
        /\ Record(i).status = COMPLETE
        /\ IsErrorShaped(Record(i).results["metadata"])
        /\ Record(i).results["preview_frame"] = None

Samples(t) == Len(t.dark_frames) + Len(t.bright_frames) + t.normal_frames

\* C10: with every started worker scheduled fairly, each accepted upload's
\* worker ends and its record reaches 'complete' or an error status; the
\* frame loop samples at most 100 frames.
C10_EveryUploadTerminates ==
    /\ [](\A i \in Started : Samples(threads[i]) <= FrameCap \div Stride)
    /\ \A i \in 1..MaxWorkers :
        (i \in Started) ~>
            (/\ i \in Started
             /\ threads[i].pc = "done"
             /\ IsTerminal(Record(i).status))

C10_Witness ==
    \E i \in Started :
        /\ threads[i].pc = "done"
        /\ files[threads[i].path] = LongClip
        /\ IsTerminal(Record(i).status)
        /\ Record(i).results["frames"].summary.dark_count = FrameCap \div Stride

\* C11: any two accepted uploads, those accepted in the same wall-clock second
\* included, get different file_ids, hence different records.
C11_DistinctFileIds ==
    \A i, j \in Started : i # j => threads[i].file_id # threads[j].file_id

\* C12: every record has exactly one writer: each write to a record, its
\* creation included, is made by the one worker started for that file_id, and
\* no worker writes the record of another submission.
C12_SingleWriter ==
    [][\A i \in Started :
        threads'[i] # threads[i]
            => /\ \A id \in DOMAIN analysis_progress' :
                    (id # threads[i].file_id /\ id \in DOMAIN analysis_progress)
                        => analysis_progress'[id] = analysis_progress[id]
               /\ DOMAIN analysis_progress' \subseteq
                    DOMAIN analysis_progress \cup {threads[i].file_id}
               /\ \A j \in Started :
                    j # i => threads[j].file_id # threads[i].file_id]_vars

\* the file names of FileNames with no extension or with an extension outside
\* mp4, avi, mov, mkv
DisallowedNames == { <<"a">>, <<"a", ".", "txt">> }

\* C13: an upload whose file name has no extension, or an extension outside
\* the allowed set, gets an error response, starts no worker thread and leaves
\* the progress store (and the upload folder) unchanged.
C13_RejectedUploadChangesNothing ==
    [][\A u \in Uploads :
        (/\ u.hasFile
         /\ u.name \in DisallowedNames
         /\ upload_file(u.hasFile, u.name, u.content, u.saved))
            => /\ IsErrorShaped(response'.body)
               /\ response'.code = 400
               /\ threads' = threads
               /\ analysis_progress' = analysis_progress
               /\ files' = files]_vars

C13_Witness ==
    /\ response = UploadError(400, "Invalid file type")
    /\ \E i \in Started : threads[i].pc \notin {"init", "done"}

\* C14: GET /progress/<id> and GET /results/<id> for an id that has no record
\* answer 404 'File not found' and neither create nor change a record.
C14_UnknownIdNotFound ==
    [][\A file_id \in Ids :
        (/\ file_id \notin DOMAIN analysis_progress
         /\ get_progress(file_id) \/ get_results(file_id))
            => /\ response'.body = NotFound
               /\ response'.code = 404
               /\ response'.id = file_id
               /\ analysis_progress' = analysis_progress
               /\ threads' = threads
               /\ files' = files]_vars

C14_Witness ==
    /\ response.route \in {"progress", "results"}
    /\ response.body = NotFound
    /\ response.id \notin DOMAIN analysis_progress
    /\ DOMAIN analysis_progress # {}

\* the multiples of Stride in [0, limit), increasing
Multiples(limit) ==
    [k \in 1..((limit + Stride - 1) \div Stride) |-> (k - 1) * Stride]

FrameNumbers(sampled) == [k \in 1..Len(sampled) |-> sampled[k].frame]

\* C15: when no seek or decode fails, the frames sampled are exactly the
\* multiples of 10 in [0, min(total, 1000)), each once and in increasing order:
\* a video of 1 to 10 frames has only frame 0 sampled, a video of 0 frames none.
C15_SampledIndices ==
    /\ [](\A i \in Started :
            threads[i].pc = "frames_read"
                => FrameNumbers(threads[i].sampled)
                        = Multiples(threads[i].frame_number))
    /\ [][\A i \in Started :
            (/\ threads[i].pc = "frames_read"
             /\ threads'[i].pc = "preview"
             /\ threads[i].frame_number >= Min(threads[i].frame_count, FrameCap))
                => LET total == threads[i].frame_count
                       frames == FrameNumbers(threads'[i].sampled)
                   IN  /\ frames = Multiples(Min(total, FrameCap))
                       /\ total \in 1..10 => frames = <<0>>
                       /\ total = 0 => frames = <<>>]_vars

C15_Witness ==
    \E i \in Started :
        /\ threads[i].pc = "preview"
        /\ files[threads[i].path] = LongClip
        /\ Len(threads[i].sampled) = FrameCap \div Stride
        /\ threads[i].sampled[FrameCap \div Stride].frame = FrameCap - Stride

DarkSampled(sampled) ==
    SelectSeq(sampled, LAMBDA e : e.mean < DarkBelow * 1000)
BrightSampled(sampled) ==
    SelectSeq(sampled, LAMBDA e : e.mean > BrightAbove * 1000)
Listed(seq) ==
    [k \in 1..Len(seq) |->
        [frame |-> seq[k].frame, brightness |-> Round2(seq[k].mean)]]

\* C16: dark_frames and bright_frames of the result hold at most 20 entries
\* each, the first 20 qualifying frames in frame order; the summary counts are
\* the true totals, and dark + bright + normal is the number of frames sampled.
C16_ListsCappedCountsTrue ==
    \A i \in Started :
        LET t == threads[i]
            fa == t.frame_analysis
            dark == Listed(DarkSampled(t.sampled))
            bright == Listed(BrightSampled(t.sampled))
        IN  (t.pc \in {"preview", "complete"} /\ ~IsErrorShaped(fa))
                => /\ Len(fa.dark_frames) <= 20
                   /\ Len(fa.bright_frames) <= 20
                   /\ fa.dark_frames = SubSeq(dark, 1, Min(20, Len(dark)))
                   /\ fa.bright_frames = SubSeq(bright, 1, Min(20, Len(bright)))
                   /\ fa.summary.dark_count = Len(dark)
                   /\ fa.summary.bright_count = Len(bright)
                   /\ fa.summary.dark_count + fa.summary.bright_count
                        + fa.summary.normal_count = Len(t.sampled)
                   /\ Alone(i) => Record(i).results["frames"] = fa

C16_Witness ==
    \E i \in Started :
        LET fa == threads[i].frame_analysis
        IN  /\ threads[i].pc = "complete"
            /\ ~IsErrorShaped(fa)
            /\ Len(fa.dark_frames) = 20 /\ fa.summary.dark_count > 20
            /\ Len(fa.bright_frames) = 20 /\ fa.summary.bright_count > 20
            /\ fa.summary.normal_count > 0

KeyPrefixes == {{ResultKeys[k] : k \in 1..n} : n \in 0..Len(ResultKeys)}

\* C17: in every record the keys of results are a prefix of metadata, hash,
\* frames, preview_frame; metadata_done is true exactly when results holds
\* 'metadata'; hash_progress is 0 while results lacks 'metadata' and
\* frame_progress is 0 while it lacks 'hash'; the status is 'complete' only
\* when all four keys are present.
C17_StagesInOrder ==
    \A id \in DOMAIN analysis_progress :
        LET r == analysis_progress[id]
            keys == DOMAIN r.results
        IN  /\ keys \in KeyPrefixes
            /\ r.metadata_done <=> "metadata" \in keys
            /\ "metadata" \notin keys => r.hash_progress = Zero
            /\ "hash" \notin keys => r.frame_progress = Zero
            /\ r.status = COMPLETE => keys = AllKeys

\* C18: while a worker runs, the file at its path is not written by another
\* upload, an upload of the same sanitized name in the same second included.
C18_FileNotOverwritten ==
    [][\A i \in Started :
        threads[i].pc # "done"
            => /\ threads[i].path \in DOMAIN files'
               /\ files'[threads[i].path] = files[threads[i].path]]_vars

\* C19: a sampled frame whose mean brightness is below 30 is dark, one above
\* 200 is bright, and every other one, a mean of exactly 30 or exactly 200
\* included, is normal: each sampled frame is in exactly one bucket.
C19_OneBucketPerFrame ==
    /\ [](\A i \in Started :
            LET t == threads[i]
                normal == SelectSeq(t.sampled,
                            LAMBDA e : e.mean >= 30000 /\ e.mean <= 200000)
            IN  t.pc = "frames_read"
                    => /\ t.dark_frames = Listed(DarkSampled(t.sampled))
                       /\ t.bright_frames = Listed(BrightSampled(t.sampled))
                       /\ t.normal_frames = Len(normal))
    /\ [][\A i \in Started :
            (/\ threads[i].pc = "frames_read"
             /\ Len(threads'[i].sampled) = Len(threads[i].sampled) + 1)
                => Len(threads'[i].dark_frames) + Len(threads'[i].bright_frames)
                        + threads'[i].normal_frames
                    = Len(threads[i].dark_frames) + Len(threads[i].bright_frames)
                        + threads[i].normal_frames + 1]_vars

C19_Witness ==
    \E i \in Started :
        LET t == threads[i]
        IN  /\ t.pc = "frames_read"
            /\ Len(t.sampled) = 3
            /\ t.sampled[1].mean = 30000
            /\ t.sampled[2].mean = 200001
            /\ t.sampled[3].mean = 200000
            /\ t.normal_frames = 2
            /\ Len(t.bright_frames) = 1
            /\ t.dark_frames = <<>>

\* C20: a worker never writes an error status: whatever fails inside the
\* analyzers, every run ends by writing 'complete' after it has written all
\* four result keys, and a failed analysis shows only as the error-shaped
\* value (or the null preview) stored under its key.
C20_RunsEndComplete ==
    /\ [](\A id \in DOMAIN analysis_progress :
            analysis_progress[id].status \in StatusLabels \cup {COMPLETE})
    /\ [][\A i \in Started :
            (threads[i].pc # "done" /\ threads'[i].pc = "done")
                => LET t == threads[i]
                       r == analysis_progress'[t.file_id]
                   IN  /\ t.pc = "complete"
                       /\ r.status = COMPLETE
                       /\ None \notin {t.metadata, t.hash_info, t.frame_analysis}
                       /\ Alone(i)
                            => r.results =
                                [k \in AllKeys |->
                                    CASE k = "metadata" -> t.metadata
                                      [] k = "hash" -> t.hash_info
                                      [] k = "frames" -> t.frame_analysis
                                      [] OTHER -> t.first_frame]]_vars

C20_Witness ==
    \E i \in Started :
        LET r == Record(i).results
        IN  /\ threads[i].pc = "done" /\ Alone(i)
            /\ Record(i).status = COMPLETE
            /\ DOMAIN r = AllKeys
            /\ r["hash"] = HashError("OSError")
            /\ r["frames"] = FramesError
            /\ IsErrorShaped(r["metadata"])
            /\ r["preview_frame"] = None

====
